---- MODULE Spec2Model ----
(***************************************************************************)
(* A model of buildbot's DBThreadPool (master/buildbot/db/pool.py): a      *)
(* Twisted thread pool bound to the reactor's start and shutdown, whose    *)
(* do / do_with_engine run a callable on a worker thread and deliver its   *)
(* outcome to a Deferred on the reactor thread.                            *)
(*                                                                         *)
(* The reactor thread is one process: while _stop is blocked in            *)
(* ThreadPool.stop (joining the workers) no other reactor-side operation   *)
(* runs.  Worker threads are anonymous: a thread that executes a call is   *)
(* identified by the call, the others are idle in q.get().                 *)
(*                                                                         *)
(* What pool.py inherits and calls is modelled as Twisted implements it:   *)
(* ThreadPool.callInThread queues the task, returns at once when the pool  *)
(* has been stopped (joined), and spawns workers only once started;        *)
(* ThreadPool.start spawns the minimum of workers and those the queue      *)
(* needs; ThreadPool.stop queues one WorkerStop per worker and joins the   *)
(* threads; a fired shutdown trigger is no longer registered; and          *)
(* callFromThread items are called only by a running reactor.              *)
(* A worker's steps between two accesses of shared state are one step:     *)
(* taking a task with connecting and the workaround query, and the         *)
(* callable with the assertion, conn.close() and the hand-over of the      *)
(* outcome.  What a callable does is decided when it runs.                 *)
(***************************************************************************)
EXTENDS Integers, Sequences, FiniteSets, TLC

\* ------------------------------------------------------------------ bounds
MaxCalls == 2          \* do / do_with_engine calls made in one behaviour
MaxStarts == 2         \* direct invocations of _start that start the pool

\* --------------------------------------------------------------- constants
DefaultPoolSize == 5   \* pool_size = 5
MinThreads == 1        \* minthreads=1
NoHint == 0            \* the engine has no optimal_thread_pool_size attribute
WorkerStop == 0        \* the queue item that ends a worker thread

HintValues == {NoHint, 1, 2}
Kinds == {"do", "engine"}
Outcomes == {"value", "raise", "proxy"}   \* what the caller's callable does

VARIABLES
    optimal_thread_pool_size, \* the engine's hint, NoHint when absent
    broken_sqlite,            \* self.__broken_sqlite
    config,                   \* the module's debug flag, the Twisted in use
    probe,                    \* __init__ and detect_bug1810: position, backend
    disposed,                 \* number of engine.dispose() calls
    openConns,                \* calls whose connection is open
    maxthreads,               \* ThreadPool.max
    q,                        \* ThreadPool.q: call ids and WorkerStop items
    workers,                  \* ThreadPool.workers
    threads,                  \* number of live worker threads
    started,                  \* ThreadPool.started
    joined,                   \* ThreadPool.joined
    running,                  \* DBThreadPool.running
    _start_evt,               \* "pending" | "None"
    _stop_evt,                \* "unset" (no such attribute) | "None" | "hook"
    starts,                   \* number of ThreadPool.start() calls made
    lifecycle_result,         \* how the latest _start / _stop / shutdown ended
    loopState,                \* the reactor: "init" | "running" | "stopped"
    looppc,                   \* reactor thread: "idle" | "stop_manual" | "stop_loop"
    triggers,                 \* the 'during shutdown' trigger is registered
    threadCallQueue,          \* reactor.callFromThread queue
    calls,                    \* per call: kind, self.running at call time
    outcome,                  \* per call: what the callable did, once it ran
    pc,                       \* per call: position of its task
    received,                 \* per call: the argument the callable was given
    rv,                       \* per call: what thd returned or raised
    future,                   \* per call: what the Deferred was fired with
    fired,                    \* per call: number of times the Deferred fired
    busyloop,                 \* per call: bug1992hack's LoopingCall is running
    trace                     \* per call: what was done for it, and on which thread

engineVars == <<optimal_thread_pool_size, broken_sqlite, config, probe, disposed,
               openConns>>
poolVars == <<maxthreads, q, workers, threads, started, joined>>
lifeVars == <<running, _start_evt, _stop_evt, starts, lifecycle_result>>
loopVars == <<loopState, looppc, triggers, threadCallQueue>>
callVars == <<calls, outcome, pc, received, rv, future, fired, busyloop, trace>>
vars == <<engineVars, poolVars, lifeVars, loopVars, callVars>>

\* ------------------------------------------------------------------ values
NoResult == [tag |-> "none", of |-> 0, exc |-> "none"]
Value(c) == [tag |-> "value", of |-> c, exc |-> "none"]
Failure(c, e) == [tag |-> "error", of |-> c, exc |-> e]
Engine == [obj |-> "engine", id |-> 0]
Connection(c) == [obj |-> "connection", id |-> c]
Nothing == [obj |-> "none", id |-> 0]

\* an entry of a call's trace: what happened, on the reactor or a worker thread
Ev(e, t) == [ev |-> e, on |-> t]

\* the module as imported: debug = False, and a Twisted that has
\* deferToThreadPool
DefaultConfig == [debug |-> FALSE, legacy |-> FALSE]

\* the sqlite library under the probe: no statement of test() fails but the
\* reads the probe is about
NoFault == [run |-> 0, at |-> "none", exc |-> "none"]

\* the constructor has returned; how the flag came about is summed up
Constructed(flag) ==
    [pc |-> "constructed",
     dialect |-> IF flag THEN "sqlite" ELSE "other",
     stale |-> flag, fixes |-> flag, fault |-> NoFault,
     runs |-> IF flag THEN 1 ELSE 0,
     verdict |-> IF flag THEN "present" ELSE "unknown"]

Max(a, b) == IF a > b THEN a ELSE b
Min(a, b) == IF a < b THEN a ELSE b
Ids == 1..Len(calls)

\* ------------------------------------------------------------ construction
\* mutant: the engine's hint is ignored
pool_size_ignores_hint(hint) == DefaultPoolSize

\* __init__: the pool size is the engine's hint when it has one
pool_size(hint) == IF hint # NoHint THEN hint ELSE DefaultPoolSize

InitPool ==
    /\ optimal_thread_pool_size \in HintValues
    /\ disposed = 0
    /\ openConns = {}
    /\ maxthreads = pool_size(optimal_thread_pool_size)
    /\ q = <<>>
    /\ workers = 0
    /\ threads = 0
    /\ started = FALSE
    /\ joined = FALSE
    /\ running = FALSE
    /\ _start_evt = "pending"
    /\ _stop_evt = "unset"
    /\ starts = 0
    /\ lifecycle_result = "none"
    /\ loopState = "init"
    /\ looppc = "idle"
    /\ triggers = FALSE
    /\ threadCallQueue = <<>>
    /\ calls = <<>>
    /\ outcome = <<>>
    /\ pc = <<>>
    /\ received = <<>>
    /\ rv = <<>>
    /\ future = <<>>
    /\ fired = <<>>
    /\ busyloop = <<>>
    /\ trace = <<>>

\* the constructor has returned, whatever the probe found
InitBuilt ==
    /\ InitPool
    /\ broken_sqlite \in BOOLEAN
    /\ probe = Constructed(broken_sqlite)

\* the module as it is imported
Init == InitBuilt /\ config = DefaultConfig

\* -------------------------------------------------------------- ThreadPool
\* the calls a worker thread is executing (ThreadPool.working)
working == {c \in Ids : pc[c] = "call"}

\* ThreadPool._startSomeWorkers with qlen items queued: the new worker count
startSomeWorkers(w, qlen) ==
    Max(w, Min(maxthreads, qlen + Cardinality(working)))

\* ThreadPool.start: started, not joined, at least MinThreads workers
ThreadPool_start ==
    /\ joined' = FALSE
    /\ started' = TRUE
    /\ workers' = startSomeWorkers(Max(workers, MinThreads), Len(q))
    /\ threads' = threads + (workers' - workers)
    /\ UNCHANGED <<maxthreads, q>>

\* ThreadPool.stop up to the join: one WorkerStop per worker
ThreadPool_stop ==
    /\ joined' = TRUE
    /\ q' = q \o [i \in 1..workers |-> WorkerStop]
    /\ workers' = 0
    /\ UNCHANGED <<maxthreads, threads, started>>

\* ----------------------------------------------------------- lifecycle
_start ==
    /\ _start_evt' = "None"
    /\ IF ~running
       THEN /\ ThreadPool_start
            /\ triggers' = TRUE
            /\ _stop_evt' = "hook"
            /\ running' = TRUE
            /\ starts' = starts + 1
       ELSE UNCHANGED <<poolVars, triggers, _stop_evt, running, starts>>
    /\ lifecycle_result' = "none"
    /\ UNCHANGED <<engineVars, looppc, threadCallQueue, callVars>>

\* reactor.callWhenRunning fires: the loop became runnable
LoopReady ==
    /\ loopState = "init"
    /\ looppc = "idle"
    /\ loopState' = "running"
    /\ _start

\* _start invoked again by a caller
StartCall ==
    /\ looppc = "idle"
    /\ _start_evt = "None"
    /\ starts < MaxStarts
    /\ UNCHANGED loopState
    /\ _start

\* _stop up to the point where ThreadPool.stop blocks in join
_stop(by) ==
    /\ _stop_evt' = "None"
    /\ ThreadPool_stop
    /\ looppc' = by
    /\ lifecycle_result' = "stopped"
    /\ UNCHANGED <<engineVars, running, _start_evt, starts, loopState,
                   threadCallQueue, callVars>>

\* mutant: _stop leaves running set
stop_joined_keeps_running ==
    /\ looppc # "idle"
    /\ threads = 0
    /\ disposed' = disposed + 1
    /\ looppc' = "idle"
    /\ loopState' = IF looppc = "stop_loop" THEN "stopped" ELSE loopState
    /\ UNCHANGED <<optimal_thread_pool_size, broken_sqlite, config, probe,
                   openConns, poolVars,
                   running, _start_evt, _stop_evt, starts, lifecycle_result,
                   triggers, threadCallQueue, callVars>>

\* the rest of _stop once every worker thread has ended
stop_joined ==
    /\ looppc # "idle"
    /\ threads = 0
    /\ disposed' = disposed + 1
    /\ running' = FALSE
    /\ looppc' = "idle"
    /\ loopState' = IF looppc = "stop_loop" THEN "stopped" ELSE loopState
    /\ UNCHANGED <<optimal_thread_pool_size, broken_sqlite, config, probe,
                   openConns, poolVars,
                   _start_evt, _stop_evt, starts, lifecycle_result, triggers,
                   threadCallQueue, callVars>>

\* mutant: shutdown without the "already stopped" early return
shutdown_always_stops ==
    /\ looppc = "idle"
    /\ _stop_evt # "unset"
    /\ triggers' = FALSE
    /\ _stop("stop_manual")

shutdown ==
    /\ looppc = "idle"
    /\ IF _stop_evt = "unset"
       THEN /\ lifecycle_result' = "AttributeError"
            /\ UNCHANGED <<engineVars, poolVars, running, _start_evt, _stop_evt,
                           starts, loopVars, callVars>>
       ELSE IF _stop_evt = "None"
       THEN /\ lifecycle_result' = "noop"
            /\ UNCHANGED <<engineVars, poolVars, running, _start_evt, _stop_evt,
                           starts, loopVars, callVars>>
       ELSE /\ triggers' = FALSE
            /\ _stop("stop_manual")

\* the reactor shuts down: the 'during shutdown' trigger, if any, is fired
LoopShutdown ==
    /\ loopState = "running"
    /\ looppc = "idle"
    /\ IF triggers
       THEN /\ triggers' = FALSE
            /\ _stop("stop_loop")
       ELSE /\ loopState' = "stopped"
            /\ UNCHANGED <<engineVars, poolVars, lifeVars, looppc, triggers,
                           threadCallQueue, callVars>>

\* ------------------------------------------------------- bridge operations
\* threads.deferToThreadPool: a new Deferred, the task handed to the pool
deferToThreadPool(k) ==
    LET c == Len(calls) + 1 IN
    /\ calls' = Append(calls, [kind |-> k, running |-> running])
    /\ outcome' = Append(outcome, "none")
    /\ received' = Append(received, Nothing)
    /\ rv' = Append(rv, NoResult)
    /\ future' = Append(future, NoResult)
    /\ fired' = Append(fired, 0)
    /\ IF joined
       THEN /\ pc' = Append(pc, "dropped")
            /\ UNCHANGED <<q, workers, threads>>
       ELSE /\ pc' = Append(pc, "queued")
            /\ q' = Append(q, c)
            /\ workers' = IF started THEN startSomeWorkers(workers, Len(q) + 1)
                          ELSE workers
            /\ threads' = threads + (workers' - workers)
    /\ UNCHANGED <<maxthreads, started, joined>>

\* deferToThreadPool, or on an old Twisted do_081's Deferred and callInThread
submit_events ==
    IF config.legacy
    THEN <<Ev("Deferred", "reactor"), Ev("callInThread", "reactor")>>
    ELSE <<Ev("deferToThreadPool", "reactor")>>

\* bug1992hack.w: busyloop.start(1), then the wrapped function
bug1992hack_events == <<Ev("busyloop.start", "reactor")>> \o submit_events

\* mutant: the "before" line is logged twice
timed_do_fn_before_twice ==
    IF config.debug
    THEN <<Ev("log before", "reactor"), Ev("log before", "reactor")>>
    ELSE <<>>

\* timed_do_fn.wrap: log.msg("... - before"), when the methods were patched
timed_do_fn_before ==
    IF config.debug THEN <<Ev("log before", "reactor")>> ELSE <<>>

\* timed_do_fn.after: log.msg("... - after"), the outcome passed through
timed_do_fn_after ==
    IF config.debug THEN <<Ev("log after", "reactor")>> ELSE <<>>

\* self.do / self.do_with_engine as called: the logging wrapper outermost
dispatch_events == timed_do_fn_before \o bug1992hack_events

\* mutant: the busy loop is never started
bug1992hack_no_start(k) ==
    /\ busyloop' = Append(busyloop, FALSE)
    /\ deferToThreadPool(k)

\* bug1992hack: the busy loop is started before the wrapped call
bug1992hack(k) ==
    /\ busyloop' = Append(busyloop, TRUE)
    /\ deferToThreadPool(k)

do ==
    /\ looppc = "idle"
    /\ Len(calls) < MaxCalls
    /\ bug1992hack("do")
    /\ trace' = Append(trace, dispatch_events)
    /\ UNCHANGED <<engineVars, lifeVars, loopVars>>

do_with_engine ==
    /\ looppc = "idle"
    /\ Len(calls) < MaxCalls
    /\ bug1992hack("engine")
    /\ trace' = Append(trace, dispatch_events)
    /\ UNCHANGED <<engineVars, lifeVars, loopVars>>

\* ----------------------------------------------------------- worker threads
\* thd has returned or raised: the worker leaves ThreadPool.working and hands
\* the outcome to reactor.callFromThread (deferToThreadPool's onResult)
worker_onResult(c, result) ==
    /\ rv' = [rv EXCEPT ![c] = result]
    /\ pc' = [pc EXCEPT ![c] = "posted"]
    /\ threadCallQueue' = Append(threadCallQueue, [call |-> c, result |-> result])

\* the outcome is handed to the reactor thread
callFromThread_events == <<Ev("callFromThread", "worker")>>

\* mutant: the workaround query is issued whatever the flag
refresh_events_always(ok) ==
    <<Ev("select sqlite_master", "worker")>>
        \o (IF broken_sqlite /\ ~ok THEN callFromThread_events ELSE <<>>)

\* if self.__broken_sqlite: execute("select * from sqlite_master")
refresh_events(ok) ==
    IF broken_sqlite
    THEN <<Ev("select sqlite_master", "worker")>>
             \o (IF ok THEN <<>> ELSE callFromThread_events)
    ELSE <<>>

\* the sqlite_master query of the workaround: it is issued when the flag is
\* set, and when it fails thd ends there
refresh(c, ok) ==
    IF broken_sqlite /\ ~ok
    THEN worker_onResult(c, Failure(c, "OperationalError"))
    ELSE /\ pc' = [pc EXCEPT ![c] = "call"]
         /\ UNCHANGED <<rv, threadCallQueue>>

\* do.thd: contextual_connect and the workaround query, before the try
do_connect(c, ok) ==
    /\ openConns' = openConns \cup {c}
    /\ trace' = [trace EXCEPT ![c] =
                    @ \o <<Ev("contextual_connect", "worker")>> \o refresh_events(ok)]
    /\ refresh(c, ok)

\* mutant: do_with_engine opens a connection as do does
engine_execute_connects(c, ok) == do_connect(c, ok)

\* do_with_engine.thd: the workaround query on the engine
engine_execute(c, ok) ==
    /\ UNCHANGED openConns
    /\ trace' = [trace EXCEPT ![c] = @ \o refresh_events(ok)]
    /\ refresh(c, ok)

\* an idle worker thread takes the next queue item: WorkerStop ends the
\* thread, a task starts its thd
worker_get ==
    /\ q # <<>>
    /\ threads > Cardinality(working)
    /\ q' = Tail(q)
    /\ IF Head(q) = WorkerStop
       THEN /\ threads' = threads - 1
            /\ UNCHANGED <<pc, rv, threadCallQueue, openConns, trace>>
       ELSE /\ UNCHANGED threads
            /\ \E ok \in BOOLEAN :
                 IF calls[Head(q)].kind = "do"
                 THEN do_connect(Head(q), ok)
                 ELSE engine_execute(Head(q), ok)
    /\ UNCHANGED <<optimal_thread_pool_size, broken_sqlite, config, probe,
                   disposed, maxthreads,
                   workers, started, joined, lifeVars, loopState, looppc,
                   triggers, calls, outcome, received, future, fired, busyloop>>

\* mutant: the callable's exception is swallowed
thd_result_swallows(c, o) ==
    CASE o = "value" -> Value(c)
      [] o = "raise" -> Value(c)
      [] o = "proxy" -> Failure(c, "AssertionError")

\* mutant: the ResultProxy assertion is missing
thd_result_no_assert(c, o) ==
    CASE o = "value" -> Value(c)
      [] o = "raise" -> Failure(c, "E")
      [] o = "proxy" -> Value(c)

\* what thd holds after the callable and the assertion on its return value
thd_result(c, o) ==
    CASE o = "value" -> Value(c)
      [] o = "raise" -> Failure(c, "E")
      [] o = "proxy" -> Failure(c, "AssertionError")

\* the object handed to the callable
thd_argument(c) ==
    IF calls[c].kind = "do" THEN Connection(c) ELSE Engine

\* mutant: the callable is run by the reactor thread
do_call_events_on_reactor ==
    <<Ev("callable", "reactor"), Ev("conn.close", "worker")>>
        \o callFromThread_events

\* do.thd from the try on: the callable, conn.close(), the hand-over
do_call_events ==
    <<Ev("callable", "worker"), Ev("conn.close", "worker")>>
        \o callFromThread_events

\* do_with_engine.thd after the workaround query: the callable, the hand-over
engine_call_events == <<Ev("callable", "worker")>> \o callFromThread_events

\* do.thd: rv = callable(conn, ...) and the assertion inside the try, then
\* finally conn.close(), then rv is returned or the error raised
do_call(c) ==
    /\ pc[c] = "call"
    /\ calls[c].kind = "do"
    /\ received' = [received EXCEPT ![c] = thd_argument(c)]
    /\ \E o \in Outcomes :
         /\ outcome' = [outcome EXCEPT ![c] = o]
         /\ worker_onResult(c, thd_result(c, o))
    /\ openConns' = openConns \ {c}
    /\ trace' = [trace EXCEPT ![c] = @ \o do_call_events]
    /\ UNCHANGED <<optimal_thread_pool_size, broken_sqlite, config, probe,
                   disposed, poolVars,
                   lifeVars, loopState, looppc, triggers, calls, future, fired,
                   busyloop>>

\* do_with_engine.thd: rv = callable(self.engine, ...), the assertion, return
engine_call(c) ==
    /\ pc[c] = "call"
    /\ calls[c].kind = "engine"
    /\ received' = [received EXCEPT ![c] = thd_argument(c)]
    /\ \E o \in Outcomes :
         /\ outcome' = [outcome EXCEPT ![c] = o]
         /\ worker_onResult(c, thd_result(c, o))
    /\ trace' = [trace EXCEPT ![c] = @ \o engine_call_events]
    /\ UNCHANGED <<engineVars, poolVars, lifeVars, loopState, looppc, triggers,
                   calls, future, fired, busyloop>>

\* ------------------------------------------------------------- the reactor
\* the Deferred's callbacks in the order they were added: stop_loop by
\* bug1992hack, then after by timed_do_fn
callback_events ==
    <<Ev("callback", "reactor"), Ev("busyloop.stop", "reactor")>>
        \o timed_do_fn_after

\* bug1992hack.w.stop_loop: return r
stop_loop(r) == r

\* timed_do_fn.wrap.after: return x
after(x) == x

\* what the caller's callbacks receive: the result after the callbacks that
\* the wrappers added
addBoth(r) == IF config.debug THEN after(stop_loop(r)) ELSE stop_loop(r)

\* the running reactor calls the next callFromThread item: the Deferred
\* fires and bug1992hack's stop_loop stops the busy loop
runUntilCurrent ==
    /\ loopState = "running"
    /\ looppc = "idle"
    /\ threadCallQueue # <<>>
    /\ LET m == Head(threadCallQueue) IN
       /\ future' = [future EXCEPT ![m.call] = addBoth(m.result)]
       /\ fired' = [fired EXCEPT ![m.call] = @ + 1]
       /\ busyloop' = [busyloop EXCEPT ![m.call] = FALSE]
       /\ trace' = [trace EXCEPT ![m.call] = @ \o callback_events]
    /\ threadCallQueue' = Tail(threadCallQueue)
    /\ UNCHANGED <<engineVars, poolVars, lifeVars, loopState, looppc, triggers,
                   calls, outcome, pc, received, rv>>

\* ------------------------------------------------------------ specification
WorkerStep ==
    \E c \in Ids :
        \/ do_call(c)
        \/ engine_call(c)

Next ==
    \/ LoopReady
    \/ StartCall
    \/ shutdown
    \/ stop_joined
    \/ LoopShutdown
    \/ do
    \/ do_with_engine
    \/ worker_get
    \/ WorkerStep
    \/ runUntilCurrent

Spec == Init /\ [][Next]_vars

\* The scenario of parallel do calls: an engine whose hint is 2, the loop
\* becomes ready, do is called up to MaxCalls + 1 times and the pool is never
\* torn down.  Worker threads are scheduled by the operating system and the
\* running reactor keeps iterating, hence the weak fairness of their steps.
InitPar == Init /\ optimal_thread_pool_size = 2

do_par ==
    /\ looppc = "idle"
    /\ Len(calls) < MaxCalls + 1
    /\ bug1992hack("do")
    /\ trace' = Append(trace, dispatch_events)
    /\ UNCHANGED <<engineVars, lifeVars, loopVars>>

do_thd == \E c \in Ids : do_call(c)

NextPar ==
    \/ LoopReady
    \/ do_par
    \/ worker_get
    \/ do_thd
    \/ runUntilCurrent

SpecPar ==
    /\ InitPar
    /\ [][NextPar]_vars
    /\ WF_vars(worker_get)
    /\ WF_vars(do_thd)
    /\ WF_vars(runUntilCurrent)

\* The scenario of the wrappers: the pool is built with the debug flag set
\* or not, on a Twisted with deferToThreadPool or on an old one (do_081 and
\* do_with_engine_081); the loop becomes ready, calls are made and served,
\* and the pool is never torn down.
Configs == [debug : BOOLEAN, legacy : BOOLEAN]

InitVariants == InitBuilt /\ config \in Configs

NextVariants ==
    \/ LoopReady
    \/ do
    \/ do_with_engine
    \/ worker_get
    \/ WorkerStep
    \/ runUntilCurrent

SpecVariants == InitVariants /\ [][NextVariants]_vars

\* ------------------------------------------------------------ the probe
\* The scenario of construction: __init__ is at the dialect test, the flag
\* still has its class value, and the sqlite library behaves in one of the
\* ways of ProbeInputs.  The pool's methods can be called once __init__ has
\* returned.
FaultPoints == {"connect1", "pragma", "connect2", "create"}
FaultClasses == {"OperationalError", "DatabaseError"}
Faults ==
    {NoFault} \cup [run : {1, 2}, at : FaultPoints, exc : FaultClasses]

ProbeInputs ==
    {[pc |-> "init", dialect |-> "other", stale |-> FALSE, fixes |-> FALSE,
      fault |-> NoFault, runs |-> 0, verdict |-> "unknown"]}
    \cup [pc : {"init"}, dialect : {"sqlite"}, stale : BOOLEAN,
          fixes : BOOLEAN, fault : Faults, runs : {0}, verdict : {"unknown"}]

InitProbe ==
    /\ InitPool
    /\ optimal_thread_pool_size = NoHint
    /\ config = DefaultConfig
    /\ broken_sqlite = FALSE
    /\ probe \in ProbeInputs

\* detect_bug1810.test, run n of the two: "ok" or the exception that leaves
\* it.  When the first connect fails the file was never created and
\* os.unlink in the finally clause raises in place of the sqlite error.
test(n, select_from_sqlite_master) ==
    LET f == probe.fault IN
    IF f.run = n /\ f.at = "connect1" THEN "OSError"
    ELSE IF f.run = n /\ f.at \in {"pragma", "connect2", "create"} THEN f.exc
    ELSE IF probe.stale /\ ~(select_from_sqlite_master /\ probe.fixes)
         THEN "OperationalError"
    ELSE "ok"

\* __init__ for a dialect other than sqlite: the flag keeps its class value
init_other_dialect ==
    /\ probe.pc = "init"
    /\ probe.dialect # "sqlite"
    /\ probe' = [probe EXCEPT !.pc = "constructed"]
    /\ UNCHANGED <<optimal_thread_pool_size, broken_sqlite, config, disposed,
                   openConns, poolVars, lifeVars, loopVars, callVars>>

\* mutant: the probe is run again whenever it is asked for
detect_bug1810_again ==
    /\ probe.pc \in {"init", "constructed"}
    /\ probe.dialect = "sqlite"
    /\ probe' = [probe EXCEPT !.runs = @ + 1, !.pc = "constructed",
                              !.verdict = "present"]
    /\ broken_sqlite' = TRUE
    /\ UNCHANGED <<optimal_thread_pool_size, config, disposed,
                   openConns, poolVars, lifeVars, loopVars, callVars>>

\* __init__ for sqlite: detect_bug1810 up to the end of its first test();
\* sqlite.OperationalError out of it is the answer True, any other
\* exception leaves detect_bug1810 and __init__
detect_bug1810 ==
    /\ probe.pc = "init"
    /\ probe.dialect = "sqlite"
    /\ LET r == test(1, FALSE) IN
       /\ probe' = [probe EXCEPT
                        !.runs = @ + 1,
                        !.pc = CASE r = "ok" -> "second"
                                 [] r = "OperationalError" -> "constructed"
                                 [] OTHER -> "failed",
                        !.verdict = CASE r = "ok" -> "unknown"
                                      [] r = "OperationalError" -> "present"
                                      [] OTHER -> "raised"]
       /\ broken_sqlite' = IF r = "OperationalError" THEN TRUE
                           ELSE broken_sqlite
    /\ UNCHANGED <<optimal_thread_pool_size, config, disposed,
                   openConns, poolVars, lifeVars, loopVars, callVars>>

\* detect_bug1810 from test(select_from_sqlite_master=True) on: nothing
\* catches what this run raises; otherwise the answer is False
detect_bug1810_second ==
    /\ probe.pc = "second"
    /\ LET r == test(2, TRUE) IN
       /\ probe' = [probe EXCEPT
                        !.pc = IF r = "ok" THEN "constructed" ELSE "failed",
                        !.verdict = IF r = "ok" THEN "absent" ELSE "raised"]
       /\ broken_sqlite' = IF r = "ok" THEN FALSE ELSE broken_sqlite
    /\ UNCHANGED <<optimal_thread_pool_size, config, disposed,
                   openConns, poolVars, lifeVars, loopVars, callVars>>

\* a step of the pool that __init__ returned
constructed(A) == probe.pc = "constructed" /\ A

NextProbe ==
    \/ init_other_dialect
    \/ detect_bug1810
    \/ detect_bug1810_second
    \/ constructed(LoopReady)
    \/ constructed(do)
    \/ constructed(do_with_engine)
    \/ constructed(worker_get)
    \/ constructed(WorkerStep)
    \/ constructed(runUntilCurrent)

SpecProbe == InitProbe /\ [][NextProbe]_vars

\* ------------------------------------------------------------------ claims
DoCalls == {c \in Ids : calls[c].kind = "do"}
EngineCalls == {c \in Ids : calls[c].kind = "engine"}

\* C1: the future of a do call made while the pool is running is fired at
\* most once, and when fired it holds that call's own outcome: the value the
\* callable returned, or the error it raised.
C1_FutureOnceWithOwnOutcome ==
    \A c \in DoCalls : calls[c].running =>
        /\ fired[c] <= 1
        /\ (fired[c] = 0 => future[c] = NoResult)
        /\ (fired[c] = 1 /\ outcome[c] = "value" => future[c] = Value(c))
        /\ (fired[c] = 1 /\ outcome[c] = "raise" => future[c] = Failure(c, "E"))

C1_Witness ==
    \E a, b \in DoCalls :
        /\ calls[a].running /\ calls[b].running
        /\ fired[a] = 1 /\ outcome[a] = "value"
        /\ fired[b] = 1 /\ outcome[b] = "raise"

\* C2: once the future of a do call has fired, the connection opened for the
\* call is closed, and there are never more open connections than do calls
\* executing on a worker.
C2_ConnectionClosedOnEveryPath ==
    /\ \A c \in DoCalls : fired[c] >= 1 => c \notin openConns
    /\ Cardinality(openConns) <= Cardinality(working \cap DoCalls)

\* C3: a callable that returns a ResultProxy makes thd fail with the assertion
\* error; the future never succeeds with the handle, and in do the connection
\* is closed when the failure is delivered.
C3_ResultProxyFails ==
    \A c \in Ids : outcome[c] = "proxy" =>
        /\ rv[c] = Failure(c, "AssertionError")
        /\ future[c].tag # "value"
        /\ (fired[c] >= 1 => future[c] = Failure(c, "AssertionError"))
        /\ (fired[c] >= 1 /\ calls[c].kind = "do" => c \notin openConns)

C3_Witness ==
    /\ \E c \in DoCalls : outcome[c] = "proxy" /\ fired[c] = 1
    /\ \E c \in EngineCalls : outcome[c] = "proxy" /\ fired[c] = 1

\* C4: for a pool started once, whatever shutdown() calls and loop shutdown
\* signals follow, engine.dispose() is called at most once, and exactly once
\* as soon as the first teardown has completed.
C4_DisposedExactlyOnce ==
    starts = 1 =>
        /\ disposed <= 1
        /\ (looppc = "idle" /\ lifecycle_result \in {"stopped", "noop"}
                => disposed = 1 /\ ~running /\ ~triggers)

C4_Witness ==
    /\ starts = 1
    /\ disposed = 1
    /\ loopState = "stopped"
    /\ lifecycle_result = "noop"

\* C5: shutdown() on a stopped pool, a freshly constructed one included, is
\* a no-op and never ends in an error.
C5_ShutdownWhenStoppedNeverErrors ==
    lifecycle_result # "AttributeError"

\* C6: a call made while the pool is not running is neither queued to run
\* later nor dropped with a future that stays pending.
C6_DispatchWhileNotRunningRejected ==
    \A c \in Ids : ~calls[c].running =>
        /\ pc[c] \notin {"queued", "call", "posted"}
        /\ ~(pc[c] = "dropped" /\ fired[c] = 0)

\* C7: once the pool has been stopped (the engine disposed) it is never
\* running again and has no workers again.
C7_StoppedIsTerminal ==
    disposed > 0 => ~running /\ workers = 0 /\ threads = 0

\* C8: the maximum worker count is the engine's hint when it has one and 5
\* otherwise, the minimum is 1, and no more calls than the maximum execute
\* on workers at the same time.
C8_AtMostMaxWorking ==
    /\ optimal_thread_pool_size # NoHint => maxthreads = optimal_thread_pool_size
    /\ optimal_thread_pool_size = NoHint => maxthreads = 5
    /\ maxthreads >= 1
    /\ Cardinality(working) <= maxthreads
    /\ threads <= maxthreads

C8_Witness ==
    /\ optimal_thread_pool_size = 1
    /\ \E a, b \in Ids : pc[a] = "call" /\ pc[b] = "queued" /\ started /\ ~joined

\* C9: with a hint of 2, at most two do calls execute at once; a queued call
\* is never left waiting while a worker is free (an idle thread is there to
\* take it); and every call made while running has its future fired.
C9_TwoInParallelThirdWaits ==
    /\ [](Cardinality(working) <= 2)
    /\ []((started /\ q # <<>> /\ Cardinality(working) < 2)
            => threads > Cardinality(working))
    /\ \A c \in 1..(MaxCalls + 1) :
         (c \in Ids /\ calls[c].running) ~> (c \in Ids /\ fired[c] = 1)

C9_Witness ==
    \E a, b, c \in Ids :
        /\ a < c /\ b < c
        /\ calls[a].running /\ calls[b].running /\ calls[c].running
        /\ pc[a] = "posted" /\ pc[b] = "call" /\ pc[c] = "call"

\* C10: every do_with_engine callable is given the one engine and no
\* connection is open on behalf of a do_with_engine call; every do callable
\* is given the connection opened for its own call.
C10_EngineSharedNoConnection ==
    /\ \A c \in EngineCalls :
         /\ received[c] \in {Nothing, Engine}
         /\ (pc[c] = "posted" /\ outcome[c] # "none" => received[c] = Engine)
    /\ openConns \subseteq DoCalls
    /\ \A c \in DoCalls :
         /\ received[c] \in {Nothing, Connection(c)}
         /\ (outcome[c] # "none" => received[c] = Connection(c))

C10_Witness ==
    \E a, b \in EngineCalls :
        /\ a # b
        /\ received[a] = Engine /\ received[b] = Engine
        /\ openConns = {}

\* the places of event e in the trace of call c
At(c, e) == {i \in 1..Len(trace[c]) : trace[c][i].ev = e}

\* C11: for sqlite the probe runs at most once, and it has run and fixed the
\* flag before the first do / do_with_engine call; for another dialect it
\* never runs; once the constructor has returned the flag is the probe's
\* verdict whatever calls were made since, and before that it is unset.
C11_ProbeOnceBeforeFirstDispatch ==
    /\ probe.runs <= 1
    /\ probe.dialect # "sqlite" => probe.runs = 0 /\ ~broken_sqlite
    /\ calls # <<>> =>
           /\ probe.pc = "constructed"
           /\ probe.dialect = "sqlite" =>
                  probe.runs = 1 /\ probe.verdict \in {"present", "absent"}
    /\ probe.pc = "constructed" =>
           (broken_sqlite <=> probe.verdict = "present")
    /\ probe.pc # "constructed" => ~broken_sqlite

C11_Witness ==
    \E a, b \in Ids :
        /\ probe.dialect = "sqlite" /\ probe.runs = 1 /\ broken_sqlite
        /\ calls[a].kind = "do" /\ fired[a] = 1
        /\ calls[b].kind = "engine" /\ fired[b] = 1

\* C12: with a library none of whose other statements fails, the flag is set
\* exactly when the read without the refresh query fails and the read after
\* the refresh query succeeds.
C12_VerdictFollowsBothReads ==
    (probe.pc = "constructed" /\ probe.dialect = "sqlite"
        /\ probe.fault = NoFault) =>
            (broken_sqlite <=> (probe.stale /\ probe.fixes))

\* C13: an error of the first test run other than the failure of its final
\* read leaves the probe and the constructor: the pool is not constructed
\* and the flag is not set.
C13_UnexpectedErrorsPropagate ==
    (probe.fault.run = 1 /\ probe.runs = 1) =>
        /\ probe.pc = "failed"
        /\ probe.verdict = "raised"
        /\ ~broken_sqlite

\* C14: when the defect flag is set, every task a worker took up issued the
\* sqlite_master query on that worker, after the connection was opened (for
\* do) and before the callable was invoked; when the flag is not set, no
\* task issued it.
C14_RefreshBeforeCallableIffFlag ==
    \A c \in Ids :
        /\ ~broken_sqlite => At(c, "select sqlite_master") = {}
        /\ (broken_sqlite /\ pc[c] \in {"call", "posted"}) =>
               /\ At(c, "select sqlite_master") # {}
               /\ \A i \in At(c, "select sqlite_master") :
                      /\ trace[c][i].on = "worker"
                      /\ \A j \in At(c, "callable") : i < j
                      /\ \A j \in At(c, "contextual_connect") : j < i

C14_Witness ==
    \E a, b \in Ids :
        /\ broken_sqlite
        /\ calls[a].kind = "do" /\ calls[b].kind = "engine"
        /\ At(a, "callable") # {} /\ At(b, "callable") # {}
        /\ At(a, "select sqlite_master") # {}
        /\ At(b, "select sqlite_master") # {}

\* C17: in the current and in the legacy implementation alike, the callable
\* of a call runs on a worker thread, and the call's future is completed on
\* the reactor thread, after the worker handed the outcome over with
\* callFromThread.
C17_CallableOnWorkerFutureOnLoop ==
    \A c \in Ids :
        /\ \A i \in At(c, "callable") : trace[c][i].on = "worker"
        /\ \A i \in At(c, "callback") :
               /\ trace[c][i].on = "reactor"
               /\ \E j \in At(c, "callFromThread") :
                      j < i /\ trace[c][j].on = "worker"
               /\ \A j \in At(c, "callable") : j < i
        /\ Cardinality(At(c, "callback")) = fired[c]
        /\ (config.legacy <=> At(c, "callInThread") # {})
        /\ (config.legacy <=> At(c, "deferToThreadPool") = {})

C17_Witness ==
    \E a, b \in Ids :
        /\ config.legacy
        /\ calls[a].kind = "do" /\ calls[b].kind = "engine"
        /\ At(a, "callable") # {} /\ fired[a] = 1
        /\ At(b, "callable") # {} /\ fired[b] = 1

\* C18: a pool built with the debug flag set logs exactly one "before" line
\* per do / do_with_engine call, first of all, and exactly one "after" line
\* when the call's result is delivered, last of all, and the caller receives
\* the outcome the worker handed over; a pool built with the flag unset logs
\* neither line.
C18_DebugLogsOnceEach ==
    \A c \in Ids :
        /\ fired[c] >= 1 => future[c] = rv[c]
        /\ ~config.debug =>
               At(c, "log before") = {} /\ At(c, "log after") = {}
        /\ config.debug =>
               /\ At(c, "log before") = {1}
               /\ Cardinality(At(c, "log after")) = fired[c]
               /\ \A i \in At(c, "log after") : i = Len(trace[c])

C18_Witness ==
    \E a, b \in Ids :
        /\ config.debug
        /\ fired[a] = 1 /\ future[a].tag = "value" /\ At(a, "log after") # {}
        /\ fired[b] = 1 /\ future[b].tag = "error" /\ At(b, "log after") # {}

\* C15: the busy loop of a call is running exactly while the call is
\* outstanding: from the call on, until its Deferred has fired.
C15_TickWhileOutstanding ==
    \A c \in Ids : busyloop[c] <=> fired[c] = 0

C15_Witness ==
    \E a, b \in Ids :
        /\ fired[a] = 1 /\ future[a].tag = "error" /\ ~busyloop[a]
        /\ fired[b] = 0 /\ busyloop[b]

\* C16: no accepted task is left with a pending future for ever.  A reactor
\* that has stopped calls no callFromThread item any more, so the claim
\* requires that no task accepted by a running pool is then still undelivered
\* (stated for a pool started once, so that no restart is involved).
C16_NoAcceptedTaskLeftPending ==
    (starts = 1 /\ loopState = "stopped" /\ looppc = "idle") =>
        \A c \in Ids :
            (calls[c].running /\ pc[c] \in {"queued", "call", "posted"})
                => fired[c] = 1

\* C19: between lifecycle operations running is true exactly when a shutdown
\* hook is registered with the reactor and held in _stop_evt.
C19_RunningIffHookRegistered ==
    looppc = "idle" =>
        /\ running <=> _stop_evt = "hook"
        /\ running <=> triggers

C19_Witness ==
    /\ looppc = "idle"
    /\ disposed = 1
    /\ ~running
    /\ _stop_evt = "None"

\* C20: engine.dispose() is called only when the workers have ended with
\* nothing executing, running is cleared only after it, and once dispose()
\* has been called no callable is executing or starts executing.
C20_NothingExecutesAfterDispose ==
    /\ disposed = 0 /\ starts > 0 => running
    /\ disposed > 0 => working = {}
====
